---------------------------- MODULE Spec2Model ----------------------------
(***************************************************************************)
(* Model of the buzzline-03 streaming pipeline:                            *)
(*   consumers/csv_consumer_Adeyemi.py  (the stream processor and its      *)
(*                                       rolling window)                   *)
(*   producers/json_producer_Adeyemi.py (the event generator)              *)
(*                                                                         *)
(* A Kafka payload is modelled as the sequence of JSON tokens of its text, *)
(* so that json.loads is a parser that can fail (truncated text) and       *)
(* json.dumps is the matching printer.  Numbers are integers.  Values of   *)
(* object members are JSON scalars (no nested containers).                 *)
(***************************************************************************)
EXTENDS Integers, Sequences, FiniteSets, TLC

(***************************************************************************)
(* Bounds of the model.                                                    *)
(***************************************************************************)
\* longest stream of arbitrary payloads the subscribe source delivers
MaxDelivered == 3
\* largest rolling window size explored besides the default
MaxW == 3
\* how many records the generator is followed for
MaxRides == 5

(***************************************************************************)
(* Program constants.                                                      *)
(***************************************************************************)
\* os.getenv("WEATHER_ROLLING_WINDOW_SIZE", 5)
DefaultWindowSize == 5
\* os.getenv("TRANSPORT_INTERVAL_SECONDS", 2)
DefaultInterval == 2
\* time.sleep(2) in generate_messages
GeneratorSleep == 2

(***************************************************************************)
(* JSON values and JSON text.                                              *)
(* A scalar and a token have the same shape [t, n, s].                     *)
(***************************************************************************)
Num(n)  == [t |-> "num",  n |-> n, s |-> ""]
Str(s)  == [t |-> "str",  n |-> 0, s |-> s]
\* Python's bool is a subtype of int: True is 1, False is 0
Bool(b) == [t |-> "bool", n |-> IF b THEN 1 ELSE 0, s |-> ""]
Null    == [t |-> "null", n |-> 0, s |-> ""]
\* Python's None: what json.loads gives for null and dict.get for a missing key
None    == Null
Punct(c) == [t |-> c, n |-> 0, s |-> ""]
LBrace   == Punct("{")
RBrace   == Punct("}")
LBracket == Punct("[")
RBracket == Punct("]")
Colon    == Punct(":")
Comma    == Punct(",")

IsScalar(tok) == tok.t \in {"num", "str", "bool", "null"}

\* json.dumps of a flat dict, given as its sequence of items in insertion order
Dumps(items) ==
    IF items = <<>> THEN <<LBrace, RBrace>>
    ELSE [i \in 1 .. (4 * Len(items) + 1) |->
            IF i = 1 THEN LBrace
            ELSE IF i = 4 * Len(items) + 1 THEN RBrace
            ELSE IF i % 4 = 2 THEN Str(items[(i + 2) \div 4].key)
            ELSE IF i % 4 = 3 THEN Colon
            ELSE IF i % 4 = 0 THEN items[i \div 4].val
            ELSE Comma]

\* the text is one JSON object whose member values are scalars
IsObjectText(raw) ==
    /\ Len(raw) >= 2
    /\ raw[1] = LBrace
    /\ raw[Len(raw)] = RBrace
    /\ \/ Len(raw) = 2
       \/ Len(raw) % 4 = 1
    /\ \A i \in 2 .. (Len(raw) - 1) :
          IF i % 4 = 2 THEN raw[i].t = "str"
          ELSE IF i % 4 = 3 THEN raw[i] = Colon
          ELSE IF i % 4 = 0 THEN IsScalar(raw[i])
          ELSE raw[i] = Comma

\* the text is one JSON array of scalars
IsArrayText(raw) ==
    /\ Len(raw) >= 2
    /\ raw[1] = LBracket
    /\ raw[Len(raw)] = RBracket
    /\ \/ Len(raw) = 2
       \/ Len(raw) % 2 = 1
    /\ \A i \in 2 .. (Len(raw) - 1) :
          IF i % 2 = 0 THEN IsScalar(raw[i]) ELSE raw[i] = Comma

ObjectItems(raw) ==
    [i \in 1 .. ((Len(raw) - 1) \div 4) |-> [key |-> raw[4 * i - 2].s, val |-> raw[4 * i]]]

\* json.loads: ok = FALSE stands for json.JSONDecodeError
Loads(raw) ==
    IF IsObjectText(raw)
    THEN [ok |-> TRUE, ty |-> "dict", items |-> ObjectItems(raw), val |-> Null]
    ELSE IF IsArrayText(raw)
    THEN [ok |-> TRUE, ty |-> "list", items |-> <<>>, val |-> Null]
    ELSE IF Len(raw) = 1 /\ IsScalar(raw[1])
    THEN [ok |-> TRUE, ty |-> "scalar", items |-> <<>>, val |-> raw[1]]
    ELSE [ok |-> FALSE, ty |-> "error", items |-> <<>>, val |-> Null]

SetMax(S) == CHOOSE x \in S : \A y \in S : y <= x
SetMin(S) == CHOOSE x \in S : \A y \in S : x <= y

\* dict.get(key): the value of the last member with that key, else None
DictGet(items, key) ==
    LET idx == {i \in DOMAIN items : items[i].key = key}
    IN  IF idx = {} THEN None ELSE items[SetMax(idx)].val


(***************************************************************************)
(* Payloads the subscribe source can deliver.                              *)
(***************************************************************************)
RequiredFields == <<"timestamp", "temperature", "humidity", "pressure">>

\* the four members of the example message of the consumer's docstring
WeatherItems(timestamp, temperature, humidity, pressure) ==
    << [key |-> "timestamp",   val |-> timestamp],
       [key |-> "temperature", val |-> temperature],
       [key |-> "humidity",    val |-> humidity],
       [key |-> "pressure",    val |-> pressure] >>

Reading(temperature) ==
    Dumps(WeatherItems(Str("2023-10-01T12:00:00Z"), temperature, Num(60), Num(1013)))

\* items with the member named key left out
Without(items, key) == SelectSeq(items, LAMBDA it : it.key # key)
\* items with the member named key set to null
WithNull(items, key) ==
    [i \in DOMAIN items |-> IF items[i].key = key THEN [items[i] EXCEPT !.val = Null]
                            ELSE items[i]]

ExampleItems == WeatherItems(Str("2023-10-01T12:00:00Z"), Num(2), Num(60), Num(1013))

\* payloads that may occur any number of times in a stream
CoreMessages ==
    { Reading(Num(2)), Reading(Num(5)), Reading(Num(3)),
      \* the temperature key is missing
      Dumps(Without(ExampleItems, "temperature")),
      \* truncated JSON
      SubSeq(Reading(Num(2)), 1, 8) }

\* payloads that occur at most once in a stream
RareMessages ==
    \* each field absent, each field null
    { Dumps(Without(ExampleItems, RequiredFields[f])) : f \in 1 .. 4 }
    \cup { Dumps(WithNull(ExampleItems, RequiredFields[f])) : f \in 1 .. 4 }
    \cup { \* a temperature of the wrong type
           Reading(Str("hot")),
           \* every field present, falsy and not null
           Dumps(WeatherItems(Str(""), Num(0), Bool(FALSE), Num(0))),
           \* JSON that is not an object: an array, a number, a string, a boolean, null
           <<LBracket, Num(2), Comma, Num(5), RBracket>>,
           <<Num(7)>>, <<Str("hot")>>, <<Bool(TRUE)>>, <<Null>> }

\* the end-to-end scenario of the specification, run with the default window size
ScenarioStream ==
    << Reading(Num(20)), Reading(Num(21)), Reading(Num(19)),
       Reading(Num(22)), Reading(Num(23)), Reading(Num(18)) >>

IsPrefix(s, t) == Len(s) <= Len(t) /\ SubSeq(t, 1, Len(s)) = s

\* the streams the model explores: the next payload m after those delivered
CanDeliver(delivered_, m) ==
    \/ /\ Len(delivered_) < MaxDelivered
       /\ \A i \in DOMAIN delivered_ : delivered_[i] \in CoreMessages \cup RareMessages
       /\ \/ m \in CoreMessages
          \/ /\ m \in RareMessages
             /\ \A i \in DOMAIN delivered_ : delivered_[i] \in CoreMessages
    \/ IsPrefix(Append(delivered_, m), ScenarioStream)

Messages == CoreMessages \cup RareMessages \cup {ScenarioStream[i] : i \in DOMAIN ScenarioStream}

(***************************************************************************)
(* The rolling window: collections.deque(maxlen = window_size).            *)
(***************************************************************************)
\* a deque that never evicts
DequeAppendUnbounded(window, value, maxlen) == Append(window, value)

\* a deque that drops its newest element instead of its oldest
DequeAppendDropsTail(window, value, maxlen) ==
    IF maxlen = 0 THEN window
    ELSE IF Len(window) = maxlen THEN Append(SubSeq(window, 1, Len(window) - 1), value)
    ELSE Append(window, value)

\* a full window is emptied before the new value goes in
DequeAppendClearsWhenFull(window, value, maxlen) ==
    IF maxlen = 0 THEN window
    ELSE IF Len(window) = maxlen THEN <<value>>
    ELSE Append(window, value)

\* deque.append on a bounded deque: a full deque drops its head
DequeAppend(window, value, maxlen) ==
    IF maxlen = 0 THEN window
    ELSE IF Len(window) = maxlen THEN Append(Tail(window), value)
    ELSE Append(window, value)

IsNumber(v) == v.t \in {"num", "bool"}

\* max(rolling_window) - min(rolling_window) raises no TypeError: a str beside a
\* number cannot be compared, and str - str is not defined
RangeDefined(window) ==
    \A i \in DOMAIN window : IsNumber(window[i])

\* last element minus first element
TempRangeLastFirst(window) == window[Len(window)].n - window[1].n

TempRange(window) ==
    SetMax({window[i].n : i \in DOMAIN window}) - SetMin({window[i].n : i \in DOMAIN window})

(***************************************************************************)
(* process_message: what one call does to the window and what it logs.     *)
(* msg is the position of the payload in the stream; it stands for the     *)
(* payload text that the log lines of the code carry.                      *)
(***************************************************************************)
LogEntry(level, event, msg, n) == [level |-> level, event |-> event, msg |-> msg, n |-> n]

\* only the temperature is looked at
NoneInTemperatureOnly(data) == DictGet(data.items, "temperature") = None

\* Python's truth value of a JSON scalar
IsFalsy(v) ==
    \/ v.t = "null"
    \/ v.t \in {"num", "bool"} /\ v.n = 0
    \/ v.t = "str" /\ v.s = ""

\* a test of truthiness: not all((timestamp, temperature, humidity, pressure))
NoneInFalsy(data) ==
    \E f \in 1 .. 4 : IsFalsy(DictGet(data.items, RequiredFields[f]))

\* line 86: None in (timestamp, temperature, humidity, pressure)
NoneIn(data) ==
    \E f \in 1 .. 4 : DictGet(data.items, RequiredFields[f]) = None

\* len(rolling_window) <= window_size
IsFullOrLess(window, window_size_) == Len(window) <= window_size_

\* line 100: len(rolling_window) == window_size
IsFull(window, window_size_) == Len(window) = window_size_

Outcome(exc, accepted, window, log_) ==
    [exc |-> exc, accepted |-> accepted, window |-> window, log |-> log_]

\* lines 74-102, the body of the try: the exception it raises ("none" when it
\* returns), whether line 91 was reached, the window and the log lines it leaves
TryBody(message, rolling_window_, window_size_, msg) ==
    LET data == Loads(message) IN
    IF ~data.ok
    THEN Outcome("JSONDecodeError", FALSE, rolling_window_, <<>>)
    ELSE IF data.ty # "dict"
    THEN \* line 79: a list, str, int, float, bool or None has no get
         Outcome("AttributeError", FALSE, rolling_window_, <<>>)
    ELSE IF NoneIn(data)
    THEN Outcome("none", FALSE, rolling_window_,
                 <<LogEntry("error", "invalid_format", msg, 0)>>)
    ELSE LET temperature == DictGet(data.items, "temperature")
             window == DequeAppend(rolling_window_, temperature, window_size_)
             weather == LogEntry("info", "weather_data", msg, 0)
         IN  IF ~IsFull(window, window_size_)
             THEN Outcome("none", TRUE, window, <<weather>>)
             ELSE IF window = <<>>
             THEN \* max of an empty deque
                  Outcome("ValueError", TRUE, window, <<weather>>)
             ELSE IF ~RangeDefined(window)
             THEN Outcome("TypeError", TRUE, window, <<weather>>)
             ELSE Outcome("none", TRUE, window,
                          <<weather, LogEntry("debug", "temp_range", msg, TempRange(window))>>)

\* the subclasses of Exception the body can raise
Exceptions == {"JSONDecodeError", "AttributeError", "ValueError", "TypeError"}

\* an except clause for TypeError alone
HandlerTypeErrorOnly(exc) ==
    IF exc = "TypeError" THEN "processing_error" ELSE "uncaught"

\* the except clause for json.JSONDecodeError alone
HandlerDecodeErrorOnly(exc) ==
    IF exc = "JSONDecodeError" THEN "json_decode_error" ELSE "uncaught"

\* lines 104-107: the except clause that takes the exception, "uncaught" if none does
Handler(exc) ==
    IF exc = "JSONDecodeError" THEN "json_decode_error"
    ELSE IF exc \in Exceptions THEN "processing_error"
    ELSE "uncaught"

\* lines 73-107: raised tells whether an exception leaves the call
process_message(message, rolling_window_, window_size_, msg) ==
    LET body == TryBody(message, rolling_window_, window_size_, msg) IN
    IF body.exc = "none"
    THEN [raised |-> FALSE, accepted |-> body.accepted, window |-> body.window,
          log |-> body.log]
    ELSE IF Handler(body.exc) = "uncaught"
    THEN [raised |-> TRUE, accepted |-> body.accepted, window |-> body.window,
          log |-> body.log]
    ELSE [raised |-> FALSE, accepted |-> body.accepted, window |-> body.window,
          log |-> Append(body.log, LogEntry("error", Handler(body.exc), msg, 0))]

\* the steps of a call that change state, in program order: the append of line 91,
\* then each log line
NSteps(out) == (IF out.accepted THEN 1 ELSE 0) + Len(out.log)

\* a call cut short by KeyboardInterrupt after k of its steps
Interrupted(out, before, k) ==
    IF k = 0 THEN [accepted |-> FALSE, window |-> before, log |-> <<>>]
    ELSE IF out.accepted
    THEN [accepted |-> TRUE, window |-> out.window, log |-> SubSeq(out.log, 1, k - 1)]
    ELSE [accepted |-> FALSE, window |-> before, log |-> SubSeq(out.log, 1, k)]

(***************************************************************************)
(* The consumer process: main() of csv_consumer_Adeyemi.py.                *)
(***************************************************************************)
VARIABLES
    pc,              \* where main() is: STARTING, POLLING, PROCESSING, DRAINING,
                     \* STOPPED (main returned), FAILED (an exception left main)
    consumer_topic,  \* get_kafka_topic() of the consumer
    offset,          \* how many records of its topic lie behind the consumer
    window_size,     \* get_rolling_window_size()
    rolling_window,  \* the deque, as the sequence of its elements, head first
    consumer,        \* the subscribe source: "absent", "open" or "closed"
    close_calls,     \* how many times consumer.close() was called
    delivered,       \* the payloads the source has yielded so far, in order
    log,             \* the log lines of process_message, in order
    pushes,          \* how many times line 91, rolling_window.append, has run
    exit_path        \* how the loop was left: "none", "interrupt", "end_of_stream",
                     \* "source_error"

consumer_vars ==
    <<pc, consumer_topic, offset, window_size, rolling_window, consumer, close_calls,
      delivered, log, pushes, exit_path>>

(***************************************************************************)
(* The producer process: main() of json_producer_Adeyemi.py.               *)
(***************************************************************************)
VARIABLES
    ppc,                   \* where the producer's main() is: STARTING, PROVISIONING,
                           \* GENERATING, SENDING, RESUMING, DRAINING, EXITED
    topic,                 \* get_kafka_topic()
    interval_secs,         \* get_message_interval()
    producer,              \* the publish sink: "absent", "open" or "closed"
    producer_close_calls,  \* how many times producer.close() was called
    topic_calls,           \* how many times create_kafka_topic was called
    ride_id_counter,       \* the generator's counter
    message_dict,          \* the record the generator yielded last
    sent,                  \* the records handed to producer.send, serialized, in order
    slept,                 \* the seconds the generator has slept in all
    producer_exit_path,    \* how the loop was left: "none", "interrupt", "send_error"
    exit_status            \* the status the process ended with, -1 while it runs

producer_vars ==
    <<ppc, topic, interval_secs, producer, producer_close_calls, topic_calls,
      ride_id_counter, message_dict, sent, slept, producer_exit_path, exit_status>>

\* int(os.getenv("WEATHER_ROLLING_WINDOW_SIZE", 5))
WindowSizes == (-1 .. MaxW) \cup {DefaultWindowSize}

\* os.getenv("WEATHER_TOPIC", "weather_data_topic")
ConsumerTopics == {"weather_data_topic", "transportation_updates"}

\* the values of the records published on the consumer's topic, in order
Feed ==
    LET on_topic == SelectSeq(sent, LAMBDA r : r.topic = consumer_topic)
    IN  [i \in DOMAIN on_topic |-> on_topic[i].value]

\* the values of all the records published, whatever their topic
FeedAnyTopic == [i \in DOMAIN sent |-> sent[i].value]

ConsumerInit ==
    /\ pc = "STARTING"
    /\ consumer_topic \in ConsumerTopics
    /\ offset = 0
    /\ window_size \in WindowSizes
    /\ rolling_window = <<>>
    /\ consumer = "absent"
    /\ close_calls = 0
    /\ delivered = <<>>
    /\ log = <<>>
    /\ pushes = 0
    /\ exit_path = "none"

\* lines 123-139: configuration, deque(maxlen=window_size), create_kafka_consumer
Start ==
    /\ pc = "STARTING"
    /\ \/ \* deque(maxlen=-1) raises ValueError
          /\ window_size < 0
          /\ pc' = "FAILED"
          /\ UNCHANGED <<consumer, offset>>
       \/ \* create_kafka_consumer raises
          /\ window_size >= 0
          /\ pc' = "FAILED"
          /\ UNCHANGED <<consumer, offset>>
       \/ \* the consumer starts at the oldest record of its topic or after the newest
          /\ window_size >= 0
          /\ pc' = "POLLING"
          /\ consumer' = "open"
          /\ offset' \in {0, Len(Feed)}
    /\ rolling_window' = <<>>
    /\ UNCHANGED <<consumer_topic, window_size, close_calls, delivered, log, pushes,
                   exit_path>>
    /\ UNCHANGED producer_vars

\* the next record is fetched while the previous one is still being processed
PollMessagePrefetch ==
    /\ pc \in {"POLLING", "PROCESSING"}
    /\ \E m \in Messages :
          /\ CanDeliver(delivered, m)
          /\ delivered' = Append(delivered, m)
    /\ offset' = offset + 1
    /\ pc' = "PROCESSING"
    /\ UNCHANGED <<consumer_topic, window_size, rolling_window, consumer, close_calls, log,
                   pushes, exit_path>>
    /\ UNCHANGED producer_vars

\* line 141: the iterator yields the next record
PollMessage ==
    /\ pc = "POLLING"
    /\ \E m \in Messages :
          /\ CanDeliver(delivered, m)
          /\ delivered' = Append(delivered, m)
    /\ offset' = offset + 1
    /\ pc' = "PROCESSING"
    /\ UNCHANGED <<consumer_topic, window_size, rolling_window, consumer, close_calls, log,
                   pushes, exit_path>>
    /\ UNCHANGED producer_vars

\* the consumer reads the published records without regard to their topic
PollChannelAnyTopic ==
    /\ pc = "POLLING"
    /\ Len(delivered) < MaxDelivered
    /\ offset < Len(FeedAnyTopic)
    /\ delivered' = Append(delivered, FeedAnyTopic[offset + 1])
    /\ offset' = offset + 1
    /\ pc' = "PROCESSING"
    /\ UNCHANGED <<consumer_topic, window_size, rolling_window, consumer, close_calls, log,
                   pushes, exit_path>>
    /\ UNCHANGED producer_vars

\* line 141, with the producer at the other end of the channel: the iterator
\* yields the next record that was published on the consumer's topic
PollChannel ==
    /\ pc = "POLLING"
    /\ Len(delivered) < MaxDelivered
    /\ offset < Len(Feed)
    /\ delivered' = Append(delivered, Feed[offset + 1])
    /\ offset' = offset + 1
    /\ pc' = "PROCESSING"
    /\ UNCHANGED <<consumer_topic, window_size, rolling_window, consumer, close_calls, log,
                   pushes, exit_path>>
    /\ UNCHANGED producer_vars

\* line 144: the call of process_message on the record just yielded ends; an
\* exception that left it would be taken by line 147
ProcessMessage ==
    /\ pc = "PROCESSING"
    /\ LET out == process_message(delivered[Len(delivered)], rolling_window,
                                  window_size, Len(delivered))
       IN  /\ rolling_window' = out.window
           /\ log' = log \o out.log
           /\ pushes' = pushes + (IF out.accepted THEN 1 ELSE 0)
           /\ pc' = IF out.raised THEN "DRAINING" ELSE "POLLING"
           /\ exit_path' = IF out.raised THEN "source_error" ELSE exit_path
    /\ UNCHANGED <<consumer_topic, offset, window_size, consumer, close_calls, delivered>>
    /\ UNCHANGED producer_vars

\* KeyboardInterrupt while process_message runs: it is no Exception, so it leaves
\* process_message after k of its steps and reaches line 145
InterruptProcessing ==
    /\ pc = "PROCESSING"
    /\ LET out == process_message(delivered[Len(delivered)], rolling_window,
                                  window_size, Len(delivered))
       IN  \E k \in 0 .. (NSteps(out) - 1) :
              LET cut == Interrupted(out, rolling_window, k)
              IN  /\ rolling_window' = cut.window
                  /\ log' = log \o cut.log
                  /\ pushes' = pushes + (IF cut.accepted THEN 1 ELSE 0)
    /\ pc' = "DRAINING"
    /\ exit_path' = "interrupt"
    /\ UNCHANGED <<consumer_topic, offset, window_size, consumer, close_calls, delivered>>
    /\ UNCHANGED producer_vars

\* the loop notes the event and goes on polling
LeaveLoopContinues(path) ==
    /\ pc = "POLLING"
    /\ exit_path = "none"
    /\ pc' = "POLLING"
    /\ exit_path' = path
    /\ UNCHANGED <<consumer_topic, offset, window_size, rolling_window, consumer, close_calls, delivered, log, pushes>>
    /\ UNCHANGED producer_vars

\* the three ways the blocking poll of line 141 ends the loop
LeaveLoop(path) ==
    /\ pc = "POLLING"
    /\ pc' = "DRAINING"
    /\ exit_path' = path
    /\ UNCHANGED <<consumer_topic, offset, window_size, rolling_window, consumer, close_calls, delivered, log, pushes>>
    /\ UNCHANGED producer_vars

\* line 145: KeyboardInterrupt while polling
InterruptPolling == LeaveLoop("interrupt")
\* line 141: the iterator is exhausted
EndOfStream == LeaveLoop("end_of_stream")
\* line 147: the source raises an Exception
SourceError == LeaveLoop("source_error")

\* main returns without closing the source
CloseSkipped ==
    /\ pc = "DRAINING"
    /\ pc' = "STOPPED"
    /\ UNCHANGED <<consumer_topic, offset, window_size, rolling_window, consumer, close_calls, delivered, log,
                   pushes, exit_path>>
    /\ UNCHANGED producer_vars

\* lines 149-151: finally, consumer.close(), and main returns
Close ==
    /\ pc = "DRAINING"
    /\ consumer' = "closed"
    /\ close_calls' = close_calls + 1
    /\ pc' = "STOPPED"
    /\ UNCHANGED <<consumer_topic, offset, window_size, rolling_window, delivered, log, pushes, exit_path>>
    /\ UNCHANGED producer_vars

(***************************************************************************)
(* The generator and the producer's main().                                *)
(***************************************************************************)
\* os.getenv("TRANSPORT_TOPIC", "transportation_updates")
ProducerTopics == {"transportation_updates", "weather_data_topic"}
\* int(os.getenv("TRANSPORT_INTERVAL_SECONDS", 2))
Intervals == 1 .. 3

NoMessage == <<>>

\* the destination does not follow the counter
RideMessageFixedDestination(counter) ==
    << [key |-> "ride_id",          val |-> Str(ToString(counter))],
       [key |-> "service",          val |-> Str("Uber")],
       [key |-> "status",           val |-> Str(IF counter % 2 = 0 THEN "Completed"
                                                ELSE "In Progress")],
       [key |-> "duration",         val |-> Num(counter * 10)],
       [key |-> "pickup_location",  val |-> Str("Downtown")],
       [key |-> "dropoff_location", val |-> Str("Airport")] >>

\* lines 70-77: the record the generator builds from its counter
RideMessage(counter) ==
    << [key |-> "ride_id",          val |-> Str(ToString(counter))],
       [key |-> "service",          val |-> Str("Uber")],
       [key |-> "status",           val |-> Str(IF counter % 2 = 0 THEN "Completed"
                                                ELSE "In Progress")],
       [key |-> "duration",         val |-> Num(counter * 10)],
       [key |-> "pickup_location",  val |-> Str("Downtown")],
       [key |-> "dropoff_location", val |-> Str(IF counter % 2 = 0 THEN "Airport"
                                                ELSE "Hotel")] >>

ProducerInit ==
    /\ ppc = "STARTING"
    /\ topic \in ProducerTopics
    /\ interval_secs \in Intervals
    /\ producer = "absent"
    /\ producer_close_calls = 0
    /\ topic_calls = 0
    /\ ride_id_counter = 1
    /\ message_dict = NoMessage
    /\ sent = <<>>
    /\ slept = 0
    /\ producer_exit_path = "none"
    /\ exit_status = -1

\* the failed construction of the sink ends with the status of a failed provisioning
ProducerStartExitsOne ==
    /\ ppc = "STARTING"
    /\ \/ /\ ppc' = "EXITED"
          /\ exit_status' = 1
          /\ UNCHANGED producer
       \/ /\ producer' = "open"
          /\ ppc' = "PROVISIONING"
          /\ UNCHANGED exit_status
    /\ UNCHANGED <<topic, interval_secs, producer_close_calls, topic_calls,
                   ride_id_counter, message_dict, sent, slept, producer_exit_path>>
    /\ UNCHANGED consumer_vars

\* lines 98-111: configuration and create_kafka_producer
ProducerStart ==
    /\ ppc = "STARTING"
    /\ \/ \* create_kafka_producer returns nothing: sys.exit(3)
          /\ ppc' = "EXITED"
          /\ exit_status' = 3
          /\ UNCHANGED producer
       \/ /\ producer' = "open"
          /\ ppc' = "PROVISIONING"
          /\ UNCHANGED exit_status
    /\ UNCHANGED <<topic, interval_secs, producer_close_calls, topic_calls,
                   ride_id_counter, message_dict, sent, slept, producer_exit_path>>
    /\ UNCHANGED consumer_vars

\* lines 113-119: create_kafka_topic
CreateTopic ==
    /\ ppc = "PROVISIONING"
    /\ topic_calls' = topic_calls + 1
    /\ \/ \* create_kafka_topic raises: sys.exit(1)
          /\ ppc' = "EXITED"
          /\ exit_status' = 1
       \/ /\ ppc' = "GENERATING"
          /\ UNCHANGED exit_status
    /\ UNCHANGED <<topic, interval_secs, producer, producer_close_calls,
                   ride_id_counter, message_dict, sent, slept, producer_exit_path>>
    /\ UNCHANGED consumer_vars

\* lines 68-79: the generator builds the next record and yields it
Generate ==
    /\ ppc = "GENERATING"
    /\ ride_id_counter <= MaxRides
    /\ message_dict' = RideMessage(ride_id_counter)
    /\ ppc' = "SENDING"
    /\ UNCHANGED <<topic, interval_secs, producer, producer_close_calls, topic_calls,
                   ride_id_counter, sent, slept, exit_status, producer_exit_path>>
    /\ UNCHANGED consumer_vars

\* the record is handed to the sink twice
SendTwice ==
    /\ ppc = "SENDING"
    /\ sent' = sent \o << [topic |-> topic, value |-> Dumps(message_dict)],
                          [topic |-> topic, value |-> Dumps(message_dict)] >>
    /\ ppc' = "RESUMING"
    /\ UNCHANGED <<topic, interval_secs, producer, producer_close_calls, topic_calls,
                   ride_id_counter, message_dict, slept, exit_status, producer_exit_path>>
    /\ UNCHANGED consumer_vars

\* lines 126-127: producer.send; the value serializer of line 107 is json.dumps
Send ==
    /\ ppc = "SENDING"
    /\ sent' = Append(sent, [topic |-> topic, value |-> Dumps(message_dict)])
    /\ ppc' = "RESUMING"
    /\ UNCHANGED <<topic, interval_secs, producer, producer_close_calls, topic_calls,
                   ride_id_counter, message_dict, slept, exit_status, producer_exit_path>>
    /\ UNCHANGED consumer_vars

\* lines 81-82: the generator is resumed: the counter advances, time.sleep(2)
Resume ==
    /\ ppc = "RESUMING"
    /\ ride_id_counter' = ride_id_counter + 1
    /\ slept' = slept + GeneratorSleep
    /\ ppc' = "GENERATING"
    /\ UNCHANGED <<topic, interval_secs, producer, producer_close_calls, topic_calls,
                   message_dict, sent, exit_status, producer_exit_path>>
    /\ UNCHANGED consumer_vars

ProducerLeaveLoop(path) ==
    /\ ppc' = "DRAINING"
    /\ producer_exit_path' = path
    /\ UNCHANGED <<topic, interval_secs, producer, producer_close_calls, topic_calls,
                   ride_id_counter, message_dict, sent, slept, exit_status>>
    /\ UNCHANGED consumer_vars

\* line 128: KeyboardInterrupt anywhere in the loop
ProducerInterrupt ==
    /\ ppc \in {"GENERATING", "SENDING", "RESUMING"}
    /\ ProducerLeaveLoop("interrupt")

\* line 130: producer.send raises an Exception
SendError ==
    /\ ppc = "SENDING"
    /\ ProducerLeaveLoop("send_error")

\* lines 132-136: finally, producer.close(), and main returns
ProducerClose ==
    /\ ppc = "DRAINING"
    /\ producer' = "closed"
    /\ producer_close_calls' = producer_close_calls + 1
    /\ ppc' = "EXITED"
    /\ exit_status' = 0
    /\ UNCHANGED <<topic, interval_secs, topic_calls, ride_id_counter, message_dict,
                   sent, slept, producer_exit_path>>
    /\ UNCHANGED consumer_vars

(***************************************************************************)
(* Specifications.                                                         *)
(***************************************************************************)
vars == <<consumer_vars, producer_vars>>

\* the producer has not been started: its configuration is the default one
ProducerIdle ==
    /\ ProducerInit
    /\ topic = "transportation_updates"
    /\ interval_secs = DefaultInterval

\* the consumer has not been started: its configuration is the default one
ConsumerIdle ==
    /\ ConsumerInit
    /\ consumer_topic = "weather_data_topic"
    /\ window_size = DefaultWindowSize

\* the consumer process, fed by a source that delivers any stream
Init ==
    /\ ConsumerInit
    /\ consumer_topic = "weather_data_topic"
    /\ ProducerIdle

Next ==
    \/ Start
    \/ PollMessage
    \/ ProcessMessage
    \/ InterruptProcessing
    \/ InterruptPolling
    \/ EndOfStream
    \/ SourceError
    \/ Close

Spec == Init /\ [][Next]_vars

\* the same, with the scheduling of a sequential program: once the loop is left,
\* the finally clause runs (the blocking poll itself may block for ever)
FairSpec ==
    /\ Spec
    /\ WF_vars(Close)

\* the producer process
ProducerSpecInit == ProducerInit /\ ConsumerIdle

ProducerNext ==
    \/ ProducerStart
    \/ CreateTopic
    \/ Generate
    \/ Send
    \/ Resume
    \/ ProducerInterrupt
    \/ SendError
    \/ ProducerClose

ProducerSpec == ProducerSpecInit /\ [][ProducerNext]_vars

\* the two processes at the two ends of the channel
PipelineInit ==
    /\ ProducerInit
    /\ interval_secs = DefaultInterval
    /\ ConsumerInit
    /\ window_size \in -1 .. 2

PipelineNext ==
    \/ ProducerStart
    \/ CreateTopic
    \/ Generate
    \/ Send
    \/ Resume
    \/ ProducerInterrupt
    \/ SendError
    \/ ProducerClose
    \/ Start
    \/ PollChannel
    \/ ProcessMessage
    \/ InterruptProcessing
    \/ InterruptPolling
    \/ EndOfStream
    \/ SourceError
    \/ Close

PipelineSpec == PipelineInit /\ [][PipelineNext]_vars

(***************************************************************************)
(* What the claims are stated with.                                        *)
(***************************************************************************)
Last(seq) == seq[Len(seq)]
Front(seq) == SubSeq(seq, 1, Len(seq) - 1)
\* the last k elements of seq, all of it when it is shorter
LastK(seq, k) == IF Len(seq) <= k THEN seq ELSE SubSeq(seq, Len(seq) - k + 1, Len(seq))

\* the object has a member named field, and the last such member is not null
FieldPresent(items, field) ==
    \E i \in DOMAIN items :
       /\ items[i].key = field
       /\ \A j \in DOMAIN items : j > i => items[j].key # field
       /\ items[i].val.t # "null"

\* a payload that cannot be decoded as JSON
Undecodable(m) == ~Loads(m).ok
\* a payload that decodes to an object with all four required fields, none null
IsValidRecord(m) ==
    LET data == Loads(m)
    IN  /\ data.ok
        /\ data.ty = "dict"
        /\ \A f \in 1 .. 4 : FieldPresent(data.items, RequiredFields[f])
\* a payload that decodes to an object in which a required field is absent or null
Incomplete(m) ==
    LET data == Loads(m)
    IN  /\ data.ok
        /\ data.ty = "dict"
        /\ \E f \in 1 .. 4 : ~FieldPresent(data.items, RequiredFields[f])

\* the valid payloads among those the source can deliver, and their temperatures
ValidMessages == {m \in Messages : IsValidRecord(m)}
TemperatureOf == [m \in ValidMessages |-> DictGet(Loads(m).items, "temperature")]

\* the temperatures of the valid records of a stream, in delivery order
ValidTemps(stream) ==
    LET valid == SelectSeq(stream, LAMBDA m : m \in ValidMessages)
    IN  [i \in DOMAIN valid |-> TemperatureOf[valid[i]]]

\* the values pushed so far, in the order of the pushes
Pushed == SubSeq(ValidTemps(delivered), 1, pushes)

\* this step logs a derived metric
ReportsMetric ==
    \E k \in (Len(log) + 1) .. Len(log') : log'[k].event = "temp_range"

\* the largest difference of two elements
SpecRange(window) ==
    LET vals == {window[i].n : i \in DOMAIN window}
    IN  CHOOSE d \in {a - b : a \in vals, b \in vals} :
           \A a \in vals, b \in vals : a - b <= d

\* the processing of record i has run to its end
Processed(i) == Len(delivered) > i \/ (Len(delivered) = i /\ pc = "POLLING")

HasLog(level, event, msg, n) ==
    \E k \in DOMAIN log : log[k] = LogEntry(level, event, msg, n)

(***************************************************************************)
(* The claims.                                                             *)
(***************************************************************************)

\* C1 (window bound): for every window size W >= 1 and every stream of valid,
\* malformed and incomplete payloads the window holds at most W elements, and once
\* W+1 values were pushed, the first pushed value (when no later push repeats it)
\* is no longer in the window.
C1_WindowBound ==
    window_size >= 1 =>
       /\ Len(rolling_window) <= window_size
       /\ LET temps == ValidTemps(delivered)
          IN  /\ pushes <= Len(temps)
              /\ (pushes > window_size /\ \A j \in 2 .. pushes : temps[j] # temps[1])
                    => \A i \in DOMAIN rolling_window : rolling_window[i] # temps[1]

C1_Witness ==
    /\ window_size = 2
    /\ pushes = window_size + 1
    /\ \A j \in 2 .. pushes : Pushed[j] # Pushed[1]
    /\ Len(rolling_window) = window_size

\* C2 (FIFO eviction): the window is exactly the temperatures of the last
\* min(N, W) accepted records, in delivery order, where every accepted record
\* was pushed exactly once (N pushes for N accepted records).
C2_FifoEviction ==
    LET temps == ValidTemps(delivered)
    IN  /\ pushes <= Len(temps)
        /\ rolling_window = LastK(SubSeq(temps, 1, pushes), window_size)
        /\ pc = "POLLING" => pushes = Len(temps)
        /\ pc = "PROCESSING" => pushes = Len(ValidTemps(Front(delivered)))

C2_Witness ==
    /\ pc = "POLLING"
    /\ window_size = 1
    /\ pushes = 2
    /\ \E i \in DOMAIN delivered : ~IsValidRecord(delivered[i])
    /\ Pushed[1] # Pushed[2]
    /\ rolling_window = <<Pushed[2]>>

\* C3 (rejection isolation): processing a payload that cannot be decoded leaves
\* the window unchanged and reports no metric, no exception leaves
\* process_message, and the loop is back at its poll (unless the operator
\* interrupts it).
C3_RejectionIsolation ==
    [][ (pc = "PROCESSING" /\ Undecodable(Last(delivered))) =>
           /\ rolling_window' = rolling_window
           /\ pushes' = pushes
           /\ ~ReportsMetric
           /\ \/ pc' = "POLLING" /\ exit_path' = "none"
              \/ pc' = "DRAINING" /\ exit_path' = "interrupt" ]_vars

\* a truncated payload was processed and a later record was still pushed
C3_Witness ==
    \E i \in DOMAIN delivered : \E j \in DOMAIN delivered :
       /\ i < j
       /\ Undecodable(delivered[i])
       /\ HasLog("error", "json_decode_error", i, 0)
       /\ IsValidRecord(delivered[j])
       /\ HasLog("info", "weather_data", j, 0)
       /\ rolling_window # <<>>

\* C4 (missing-field rejection): processing an object in which a required field
\* is absent or null logs an error, leaves the window unchanged and reports no
\* metric, and the loop continues; and a push happens only for a record with
\* all four fields present and not null.
C4_MissingFieldRejection ==
    [][ /\ (pc = "PROCESSING" /\ Incomplete(Last(delivered))) =>
              /\ rolling_window' = rolling_window
              /\ pushes' = pushes
              /\ ~ReportsMetric
              /\ \/ /\ pc' = "POLLING"
                    /\ exit_path' = "none"
                    /\ log' = Append(log, LogEntry("error", "invalid_format",
                                                   Len(delivered), 0))
                 \/ /\ pc' = "DRAINING"
                    /\ exit_path' = "interrupt"
                    /\ log' = log
        /\ (pushes' # pushes \/ rolling_window' # rolling_window) =>
              /\ pc = "PROCESSING"
              /\ IsValidRecord(Last(delivered)) ]_vars

\* a record without a timestamp was rejected and the loop went on
C4_Witness ==
    /\ pc = "POLLING"
    /\ \E i \in DOMAIN delivered :
          /\ delivered[i] = Dumps(Without(ExampleItems, "timestamp"))
          /\ HasLog("error", "invalid_format", i, 0)
    /\ pushes >= 1
    /\ Len(delivered) = 3

\* C5 (metric only at full capacity): a metric is reported only by the
\* processing of a valid record, right after its push, when that push leaves
\* the window with exactly W elements; so never before W records were accepted
\* and never while a rejected record is processed.
C5_MetricOnlyWhenFull ==
    [][ ReportsMetric =>
           /\ pc = "PROCESSING"
           /\ IsValidRecord(Last(delivered))
           /\ pushes' = pushes + 1
           /\ pushes' >= window_size
           /\ Len(rolling_window') = window_size
           /\ Len(log') = Len(log) + 2
           /\ log'[Len(log')].msg = Len(delivered) ]_vars

\* a window of 3 that reported a metric at its third accepted record, not before
C5_Witness ==
    /\ window_size = 3
    /\ pushes = 3
    /\ \E k \in DOMAIN log : log[k].event = "temp_range" /\ log[k].msg = 3
    /\ \A k \in DOMAIN log : log[k].event = "temp_range" => log[k].msg = 3

\* C6 (range correctness): every reported metric is the largest minus the
\* smallest temperature of the last W accepted records up to the reporting one.
\* With W = 5 and 20,21,19,22,23 the 5th record reports 4; an 18 then leaves
\* [21,19,22,23,18] and reports 5.  With W = 3 and 2,5,3 the report is 3.
C6_RangeCorrectness ==
    /\ \A k \in DOMAIN log :
          log[k].event = "temp_range" =>
             LET w == LastK(ValidTemps(SubSeq(delivered, 1, log[k].msg)), window_size)
             IN  /\ Len(w) = window_size
                 /\ log[k].n = SpecRange(w)
    /\ (/\ window_size = 5
        /\ IsPrefix(SubSeq(ScenarioStream, 1, 5), delivered)
        /\ Processed(5))
          => HasLog("debug", "temp_range", 5, 4)
    /\ (window_size = 5 /\ delivered = ScenarioStream /\ Processed(6))
          => /\ rolling_window = <<Num(21), Num(19), Num(22), Num(23), Num(18)>>
             /\ HasLog("debug", "temp_range", 6, 5)
    /\ (/\ window_size = 3
        /\ delivered = <<Reading(Num(2)), Reading(Num(5)), Reading(Num(3))>>
        /\ Processed(3))
          => /\ rolling_window = <<Num(2), Num(5), Num(3)>>
             /\ HasLog("debug", "temp_range", 3, 3)

C6_Witness ==
    /\ window_size = 5
    /\ delivered = ScenarioStream
    /\ pc = "POLLING"
    /\ HasLog("debug", "temp_range", 5, 4)
    /\ HasLog("debug", "temp_range", 6, 5)

\* C7 (interrupt drains cleanly): once the source is acquired, every way out of
\* the loop (interrupt, end of stream, an exception of the source) leads to
\* main returning with consumer.close() called exactly once; main ends with an
\* exception only when the source was never acquired.
C7_CleanDrain ==
    /\ [](/\ close_calls <= 1
          /\ pc = "STOPPED" => (close_calls = 1 /\ consumer = "closed")
          /\ close_calls = 1 => pc = "STOPPED"
          /\ pc = "FAILED" => consumer = "absent")
    /\ (exit_path # "none") ~> (pc = "STOPPED" /\ close_calls = 1)

\* an interrupt during the blocking poll, after two records, closed the source
C7_Witness ==
    /\ pc = "STOPPED"
    /\ exit_path = "interrupt"
    /\ close_calls = 1
    /\ Len(delivered) = 2
    /\ \A i \in DOMAIN delivered : \E k \in DOMAIN log : log[k].msg = i

\* C8 (all terminal paths release): in the producer and in the consumer, a
\* process that ends after its handle was constructed has closed the handle.
C8_AllTerminalPathsRelease ==
    /\ (ppc = "EXITED" /\ producer # "absent")
          => (producer = "closed" /\ producer_close_calls = 1)
    /\ (pc \in {"STOPPED", "FAILED"} /\ consumer # "absent")
          => (consumer = "closed" /\ close_calls = 1)

\* C9 as stated: a started consumer moves only along
\* STARTING -> POLLING -> (PROCESSING -> POLLING)* -> DRAINING -> STOPPED.
OriginalEdges ==
    { <<"STARTING", "POLLING">>, <<"POLLING", "PROCESSING">>,
      <<"PROCESSING", "POLLING">>, <<"POLLING", "DRAINING">>,
      <<"DRAINING", "STOPPED">> }

C9_OriginalStateMachine ==
    [][ (pc' # pc /\ consumer' # "absent") => <<pc, pc'>> \in OriginalEdges ]_vars

\* C9 (amended): a consumer whose startup succeeds moves along
\* STARTING -> POLLING -> (PROCESSING -> POLLING)* -> DRAINING -> STOPPED, or
\* from PROCESSING straight to DRAINING when the interrupt arrives while a record
\* is processed; once an interrupt, the end of the stream or a source error was
\* observed, no record is polled or processed and the window is not mutated
\* again; STOPPED is terminal, and it is eventually reached.
C9_StateMachine ==
    /\ [][ (pc' # pc /\ consumer' # "absent") =>
              \/ <<pc, pc'>> \in OriginalEdges
              \/ /\ <<pc, pc'>> = <<"PROCESSING", "DRAINING">>
                 /\ exit_path' = "interrupt" ]_vars
    /\ [][ exit_path # "none" =>
              /\ pc \in {"DRAINING", "STOPPED"}
              /\ rolling_window' = rolling_window
              /\ pushes' = pushes
              /\ delivered' = delivered
              /\ log' = log
              /\ exit_path' = exit_path ]_vars
    /\ [][ pc = "STOPPED" => UNCHANGED vars ]_vars
    /\ (exit_path # "none") ~> (pc = "STOPPED")

\* an interrupt arrived after the push of the second record and before its log
\* line, and the consumer stopped
C9_Witness ==
    /\ pc = "STOPPED"
    /\ exit_path = "interrupt"
    /\ Len(delivered) = 2
    /\ IsValidRecord(delivered[2])
    /\ pushes = Len(ValidTemps(delivered))
    /\ \A k \in DOMAIN log : log[k].msg # 2

\* C10 (ordering, no interleaving): a record is polled only when the processing
\* of every earlier record has ended; the window and the log change only while
\* the record polled last is processed, and only on its behalf; so pushes and
\* log lines are in delivery order.
C10_OrderedNonInterleaved ==
    /\ [][ delivered' # delivered =>
              /\ pc = "POLLING"
              /\ pc' = "PROCESSING"
              /\ delivered' = Append(delivered, Last(delivered'))
              /\ pushes = Len(ValidTemps(delivered))
              /\ \A i \in DOMAIN delivered : \E k \in DOMAIN log : log[k].msg = i
              /\ rolling_window' = rolling_window
              /\ log' = log ]_vars
    /\ [][ (log' # log \/ rolling_window' # rolling_window \/ pushes' # pushes) =>
              /\ pc = "PROCESSING"
              /\ delivered' = delivered
              /\ IsPrefix(log, log')
              /\ \A k \in (Len(log) + 1) .. Len(log') : log'[k].msg = Len(delivered) ]_vars
    /\ [](\A i \in DOMAIN log : \A j \in DOMAIN log : i < j => log[i].msg <= log[j].msg)
    /\ [](pc = "PROCESSING" => \A k \in DOMAIN log : log[k].msg < Len(delivered))

C10_Witness ==
    /\ pc = "POLLING"
    /\ Len(delivered) = 3
    /\ window_size = 2
    /\ pushes = 3
    /\ \E k \in DOMAIN log : log[k].event = "temp_range" /\ log[k].msg = 2
    /\ \E k \in DOMAIN log : log[k].event = "temp_range" /\ log[k].msg = 3

\* the member named key of the n-th record handed to the publish sink
SentField(n, key) == DictGet(Loads(sent[n].value).items, key)

\* C11 (startup failures): the producer ends with status 3 exactly when the
\* publish sink could not be constructed and with status 1 exactly when topic
\* provisioning failed; in both cases nothing was published.
C11_StartupExitStatuses ==
    /\ [][ /\ (ppc = "STARTING" /\ ppc' = "EXITED") => exit_status' = 3
           /\ (ppc = "PROVISIONING" /\ ppc' = "EXITED") => exit_status' = 1
           /\ (exit_status' # exit_status /\ exit_status' = 3) => ppc = "STARTING"
           /\ (exit_status' # exit_status /\ exit_status' = 1) => ppc = "PROVISIONING" ]_vars
    /\ [](exit_status = 3 => (producer = "absent" /\ topic_calls = 0 /\ sent = <<>>))
    /\ [](exit_status = 1 => (producer # "absent" /\ topic_calls = 1 /\ sent = <<>>))
    /\ []((ppc = "EXITED" /\ producer = "absent") => exit_status = 3)

C11_Witness ==
    /\ ppc = "EXITED"
    /\ exit_status = 3
    /\ topic = "weather_data_topic"
    /\ interval_secs = 3

\* C12 (generator derivation): the n-th record carries identifier n, duration
\* n * 10, and status "Completed" with destination "Airport" for even n, status
\* "In Progress" with destination "Hotel" for odd n; the counter starts at 1 and
\* advances by one per record.
C12_GeneratorDerivation ==
    /\ \A n \in DOMAIN sent :
          /\ Loads(sent[n].value).ok
          /\ Loads(sent[n].value).ty = "dict"
          /\ SentField(n, "ride_id") = Str(ToString(n))
          /\ SentField(n, "duration") = Num(n * 10)
          /\ n % 2 = 0 => /\ SentField(n, "status") = Str("Completed")
                          /\ SentField(n, "dropoff_location") = Str("Airport")
          /\ n % 2 = 1 => /\ SentField(n, "status") = Str("In Progress")
                          /\ SentField(n, "dropoff_location") = Str("Hotel")
    /\ ppc \in {"STARTING", "PROVISIONING"} => ride_id_counter = 1
    /\ ppc \in {"GENERATING", "SENDING"} => ride_id_counter = Len(sent) + 1
    /\ ppc = "RESUMING" => ride_id_counter = Len(sent)

C12_Witness ==
    /\ Len(sent) = 4
    /\ ppc = "GENERATING"
    /\ ride_id_counter = 5

\* C13 (call ordering): create_kafka_topic is called once, before the first
\* publish; every generated record is handed to the sink once, in generation
\* order, none skipped or repeated, and nothing is published once an interrupt or
\* a publish error has stopped production.
C13_CallOrdering ==
    /\ [](/\ topic_calls <= 1
          /\ (sent # <<>> \/ ppc \in {"GENERATING", "SENDING", "RESUMING"}) => topic_calls = 1
          /\ ppc = "STARTING" => topic_calls = 0
          /\ ppc = "RESUMING" => (sent # <<>> /\ sent[Len(sent)].value = Dumps(message_dict))
          /\ \A n \in DOMAIN sent : sent[n].topic = topic)
    /\ [][ sent' # sent =>
              /\ ppc = "SENDING"
              /\ producer_exit_path = "none"
              /\ Len(sent') = Len(sent) + 1
              /\ SubSeq(sent', 1, Len(sent)) = sent
              /\ sent'[Len(sent')].value = Dumps(message_dict)
              /\ DictGet(message_dict, "ride_id") = Str(ToString(Len(sent'))) ]_vars
    /\ [][ message_dict' # message_dict =>
              /\ ppc = "GENERATING"
              /\ message_dict = NoMessage \/ sent[Len(sent)].value = Dumps(message_dict) ]_vars

C13_Witness ==
    /\ ppc = "EXITED"
    /\ producer_exit_path = "send_error"
    /\ Len(sent) = 2
    /\ topic_calls = 1

\* C14 (cadence): the delay between two consecutive emissions is the configured
\* message interval, so the time slept before the n-th emission is n - 1 intervals.
C14_ConfiguredCadence ==
    slept = interval_secs * (ride_id_counter - 1)

\* a payload that decodes to something that is not an object
NonObject(m) == Loads(m).ok /\ Loads(m).ty # "dict"

\* the record with every required field present, falsy and not null
FalsyRecord == Dumps(WeatherItems(Str(""), Num(0), Bool(FALSE), Num(0)))

\* how many metrics this step logs
MetricsReported ==
    Cardinality({k \in (Len(log) + 1) .. Len(log') : log'[k].event = "temp_range"})

\* C16 (valid record, metric at every full window): the processing of a valid
\* record pushes its temperature, whatever its type, and once W >= 1 records were
\* accepted it reports exactly one metric, also when an accepted temperature is
\* not a number.
C16_MetricForEveryAcceptedRecord ==
    [][ (/\ pc = "PROCESSING"
         /\ pc' = "POLLING"
         /\ window_size >= 1
         /\ IsValidRecord(Last(delivered))) =>
           /\ pushes' = pushes + 1
           /\ rolling_window' = LastK(Append(rolling_window, TemperatureOf[Last(delivered)]),
                                      window_size)
           /\ pushes' >= window_size => MetricsReported = 1
           /\ pushes' < window_size => MetricsReported = 0 ]_vars

\* C17 (no reset, no shrinking): the length of the window never decreases, a
\* window that has W elements keeps W elements, and the window changes only by
\* an append at the tail, with the head dropped exactly when it was full.
C17_WindowNeverShrinks ==
    [][ /\ Len(rolling_window') >= Len(rolling_window)
        /\ (Len(rolling_window) = window_size /\ pc # "STARTING")
              => Len(rolling_window') = window_size
        /\ rolling_window' # rolling_window =>
              /\ pc = "PROCESSING"
              /\ \/ /\ Len(rolling_window) < window_size
                    /\ Front(rolling_window') = rolling_window
                 \/ /\ Len(rolling_window) = window_size
                    /\ Front(rolling_window') = Tail(rolling_window) ]_vars

\* a full window of 2 went through an eviction
C17_Witness ==
    /\ window_size = 2
    /\ pushes = 3
    /\ Len(rolling_window) = 2
    /\ pc = "STOPPED"

\* C18 (non-object payloads): no exception leaves process_message, whatever the
\* payload; a payload that decodes to an array, a number, a string, a boolean
\* or null is discarded with one error line, the window is unchanged, no metric
\* is reported and the loop polls again.
C18_NonObjectDiscarded ==
    [][ /\ pc = "PROCESSING" =>
              \/ pc' = "POLLING" /\ exit_path' = "none"
              \/ pc' = "DRAINING" /\ exit_path' = "interrupt"
        /\ (pc = "PROCESSING" /\ NonObject(Last(delivered))) =>
              /\ rolling_window' = rolling_window
              /\ pushes' = pushes
              /\ MetricsReported = 0
              /\ \/ /\ pc' = "POLLING"
                    /\ log' = Append(log, LogEntry("error", "processing_error",
                                                   Len(delivered), 0))
                 \/ /\ pc' = "DRAINING"
                    /\ log' = log ]_vars

\* JSON null was delivered and discarded, and a later record was pushed
C18_Witness ==
    \E i \in DOMAIN delivered : \E j \in DOMAIN delivered :
       /\ i < j
       /\ delivered[i] = <<Null>>
       /\ HasLog("error", "processing_error", i, 0)
       /\ IsValidRecord(delivered[j])
       /\ HasLog("info", "weather_data", j, 0)
       /\ pushes = 1

\* C19 (null-ness, not truthiness): a decoded object is rejected exactly when a
\* required field is absent or null; the record whose fields are "", 0, false
\* and 0 is accepted and its temperature 0 is pushed.
C19_ValidityByNullness ==
    [][ (/\ pc = "PROCESSING"
         /\ pc' = "POLLING"
         /\ Loads(Last(delivered)).ok
         /\ Loads(Last(delivered)).ty = "dict") =>
           /\ Incomplete(Last(delivered)) <=> pushes' = pushes
           /\ Incomplete(Last(delivered)) <=>
                 log' = Append(log, LogEntry("error", "invalid_format", Len(delivered), 0))
           /\ ~Incomplete(Last(delivered)) =>
                 /\ pushes' = pushes + 1
                 /\ window_size >= 1 =>
                       Last(rolling_window') = DictGet(Loads(Last(delivered)).items,
                                                       "temperature")
           /\ Last(delivered) = FalsyRecord =>
                 /\ pushes' = pushes + 1
                 /\ window_size >= 1 => Last(rolling_window') = Num(0) ]_vars

\* the falsy record was accepted after a rejected one, and its 0 is in the window
C19_Witness ==
    /\ pc = "POLLING"
    /\ Len(delivered) = 2
    /\ Incomplete(delivered[1])
    /\ delivered[2] = FalsyRecord
    /\ HasLog("info", "weather_data", 2, 0)
    /\ rolling_window = <<Num(0)>>

\* C15 as the specification states it (end-to-end data flow): every record of
\* the generator that the processor has processed was accepted and pushed, and
\* once W >= 1 of them were processed a metric has been reported.
C15_EndToEndFlow ==
    pc = "POLLING" =>
       /\ pushes = Len(delivered)
       /\ \A i \in DOMAIN delivered : HasLog("info", "weather_data", i, 0)
       /\ (window_size >= 1 /\ Len(delivered) >= window_size) =>
             \E k \in DOMAIN log : log[k].event = "temp_range"

\* C15 (end-to-end data flow, amended): the processor receives records of the
\* generator, in the order they were published, only when both are configured
\* with the same topic; each such record has none of the four weather fields,
\* so it is rejected as invalid, nothing is pushed and no metric is reported.
C15_GeneratorRecordsRejected ==
    /\ topic # consumer_topic => delivered = <<>>
    /\ Len(delivered) <= offset
    /\ offset <= Len(Feed) \/ pc \in {"STARTING", "FAILED"}
    /\ \A i \in DOMAIN delivered :
          /\ delivered[i] = Feed[offset - Len(delivered) + i]
          /\ \E n \in 1 .. MaxRides : delivered[i] = Dumps(RideMessage(n))
          /\ Incomplete(delivered[i])
          /\ Processed(i) => HasLog("error", "invalid_format", i, 0)
    /\ pushes = 0
    /\ rolling_window = <<>>
    /\ \A k \in DOMAIN log : log[k].event = "invalid_format"

\* with the topics equal, two records of the generator reached the processor
\* of a window of 1 and both were rejected
C15_Witness ==
    /\ topic = consumer_topic
    /\ window_size = 1
    /\ pc = "POLLING"
    /\ Len(delivered) = 2
    /\ delivered[1] = Dumps(RideMessage(1))
    /\ HasLog("error", "invalid_format", 1, 0)
    /\ HasLog("error", "invalid_format", 2, 0)

=============================================================================
